---- MODULE Spec2Model ----
(***************************************************************************)
(* Model of cow.py, a local test harness: it selects a build target,       *)
(* builds it when stale, parses a sample file into (input, expected)       *)
(* pairs, optionally combines them, runs the program once per sample and   *)
(* prints a tally.  Texts are sequences of one-character strings.          *)
(***************************************************************************)
EXTENDS Integers, Sequences, FiniteSets, TLC

\* ------------------------------------------------------------------ bounds
MaxLen == 6        \* longest sample-file text explored by the parser check
MaxTime == 1       \* modification times range over 0..MaxTime
MaxTest == 2       \* --test ranges over 0..MaxTest
MaxRuns == 3       \* runs of check() followed by the file-handle check

\* ------------------------------------------------------------ text helpers
NL == "\n"
ESC == "ESC"       \* the character \x1b
Whitespace == {" ", NL}

RECURSIVE lstrip(_)
lstrip(s) ==
  IF s # <<>> /\ Head(s) \in Whitespace THEN lstrip(Tail(s)) ELSE s

RECURSIVE rstrip(_)
rstrip(s) ==
  IF s # <<>> /\ s[Len(s)] \in Whitespace
  THEN rstrip(SubSeq(s, 1, Len(s) - 1)) ELSE s

\* str.strip(): drop leading and trailing whitespace
strip(s) == rstrip(lstrip(s))

\* str.startswith(prefix)
startswith(s, prefix) ==
  /\ Len(s) >= Len(prefix)
  /\ SubSeq(s, 1, Len(prefix)) = prefix

\* number of consecutive "%" characters of s from position p on
RECURSIVE PercentRun(_, _)
PercentRun(s, p) ==
  IF p <= Len(s) /\ s[p] = "%" THEN 1 + PercentRun(s, p + 1) ELSE 0

\* length of the match of the pattern %{2,}\n at position p of s, 0 if none:
\* the quantifier is greedy, and giving back a "%" never helps, because the
\* character after a shorter run is "%" and not the newline
DelimMatch(s, p) ==
  LET r == PercentRun(s, p)
  IN IF r >= 2 /\ p + r <= Len(s) /\ s[p + r] = NL THEN r + 1 ELSE 0

\* re.split(r"%{2,}\n", s): scan left to right, cur is the segment so far
RECURSIVE re_split_from(_, _, _)
re_split_from(s, p, cur) ==
  IF p > Len(s) THEN <<cur>>
  ELSE LET m == DelimMatch(s, p)
       IN IF m > 0 THEN <<cur>> \o re_split_from(s, p + m, <<>>)
          ELSE re_split_from(s, p + 1, Append(cur, s[p]))

re_split(s) == re_split_from(s, 1, <<>>)

\* the loop "for i in range(0, len(lst), 2)" of parse_samples
RECURSIVE pair_up(_, _)
pair_up(lst, i) ==
  IF i > Len(lst) THEN <<>>
  ELSE IF i + 1 > Len(lst) THEN <<>>  \* lst[i + 1] raises, "except: pass"
  ELSE <<  <<strip(lst[i]), strip(lst[i + 1])>>  >> \o pair_up(lst, i + 2)

\* parse_samples as it was before the padding: an odd list is left alone
pad_none(lst) == lst

\* the list handed to the pairing loop: an odd list gets "" appended
pad_odd(lst) == IF Len(lst) % 2 = 1 THEN Append(lst, <<>>) ELSE lst

parse_samples(text) == pair_up(pad_odd(re_split(text)), 1)

\* str.split("\n"): cur is the line so far
RECURSIVE split_lines_from(_, _, _)
split_lines_from(s, p, cur) ==
  IF p > Len(s) THEN <<cur>>
  ELSE IF s[p] = NL THEN <<cur>> \o split_lines_from(s, p + 1, <<>>)
  ELSE split_lines_from(s, p + 1, Append(cur, s[p]))

split_lines(s) == split_lines_from(s, 1, <<>>)

\* "\n".join(lines)
RECURSIVE join_lines(_)
join_lines(lines) ==
  IF lines = <<>> THEN <<>>
  ELSE IF Len(lines) = 1 THEN lines[1]
  ELSE lines[1] \o <<NL>> \o join_lines(Tail(lines))

\* the lambda of the filter: keep a line unless it starts with \x1b or DEBUG
keep_line(line) ==
  /\ ~startswith(line, <<ESC>>)
  /\ ~startswith(line, <<"D", "E", "B", "U", "G">>)

debug_filter(s) == join_lines(SelectSeq(split_lines(s), keep_line))

\* the text check() works on: decode().strip(), then the filter when
\* ignore_debug is set; nothing trims the text after the filter
normalize_output(out, ignore_debug) ==
  IF ignore_debug THEN debug_filter(strip(out)) ELSE strip(out)

\* str(n) for n >= 0
Digits == <<"0", "1", "2", "3", "4", "5", "6", "7", "8", "9">>

RECURSIVE str(_)
str(n) == IF n < 10 THEN <<Digits[n + 1]>> ELSE Append(str(n \div 10), Digits[(n % 10) + 1])

\* ------------------------------------------------------------------ check()
\* What one run of the child does: how it ends, the bytes on its stdout and
\* whether they decode, and what its stderr file holds ("ascii": ASCII text,
\* "text": decodable non-ASCII text, "bytes": bytes that do not decode).
ChildStatus == {"ok", "nonzero", "timeout", "interrupt"}
StderrKinds == {"ascii", "text", "bytes"}

Result(ret, why, raised) == [ret |-> ret, why |-> why, raised |-> raised]

\* except subprocess.CalledProcessError
on_called_process_error(child, ignore_runtime_error) ==
  IF ignore_runtime_error
  THEN IF child.err = "ascii"
       THEN Result("False", "RuntimeError", "none")
       ELSE Result("Raise", "RuntimeError", "UnicodeDecodeError")
  ELSE Result("Raise", "RuntimeError", "CalledProcessError")

\* except Exception: prints, then reads the stderr file in the default
\* encoding, which raises when the file holds undecodable bytes
on_exception(child, why) ==
  IF child.err = "bytes"
  THEN Result("Raise", why, "UnicodeDecodeError")
  ELSE Result("False", why, "none")

\* the comparison with the limit looked at only after the two passing cases
compare_limit_last(output, test_output, output_limit) ==
  IF output = test_output THEN "Pass"
  ELSE IF test_output = <<>> THEN "NoExpectedOutput"
  ELSE IF Len(output) > output_limit THEN "OutputLimit"
  ELSE "Mismatch"

\* the comparison of the normalized output with the expected output
compare(output, test_output, output_limit) ==
  IF Len(output) > output_limit THEN "OutputLimit"
  ELSE IF output = test_output THEN "Pass"
  ELSE IF test_output = <<>> THEN "NoExpectedOutput"
  ELSE "Mismatch"

\* on_success with the early return of the debugging branch left out
on_success_compares(child, test_output, output_limit, ignore_debug) ==
  LET c == compare(normalize_output(child.out, ignore_debug),
                   test_output, output_limit)
  IN IF c = "OutputLimit" THEN on_exception(child, c)
     ELSE IF c = "Mismatch" THEN Result("False", c, "none")
     ELSE Result("True", c, "none")

\* lines 52-74: the child exited with status zero and its output decoded
on_success(child, test_output, output_limit, ignore_debug) ==
  IF ~ignore_debug THEN Result("True", "Debug", "none")
  ELSE LET c == compare(normalize_output(child.out, ignore_debug),
                        test_output, output_limit)
       IN IF c = "OutputLimit" THEN on_exception(child, c)
          ELSE IF c = "Mismatch" THEN Result("False", c, "none")
          ELSE Result("True", c, "none")

check(child, test_output, output_limit, ignore_runtime_error, ignore_debug) ==
  IF child.status = "interrupt"
  THEN Result("Raise", "Interrupt", "KeyboardInterrupt")
  ELSE IF child.status = "nonzero"
  THEN on_called_process_error(child, ignore_runtime_error)
  ELSE IF child.status = "timeout" THEN on_exception(child, "Timeout")
  ELSE IF ~child.outOk THEN on_exception(child, "Decode")
  ELSE on_success(child, test_output, output_limit, ignore_debug)

\* --------------------------------------------------------- the main program
\* CONFIG.values() in insertion order, formatted for the project name "a";
\* a command is the sequence of its space-separated words
CONFIG ==
  << [f |-> "a.cpp",
      c |-> <<"g++-7", "-std=c++17", "-o", "a", "-O2", "-Dzerol",
              "-Dultmaster", "-fmax-errors=3", "a.cpp">>,
      e |-> "./a", d |-> "a"],
     [f |-> "a.py", c |-> <<>>, e |-> "python3 a.py", d |-> ""] >>

NoTarget == [f |-> "", c |-> <<>>, e |-> "", d |-> ""]

Absent == -1
Files == {"a.cpp", "a.py", "a", "a.txt"}

\* os.path.exists
path_exists(files, f) == f \in DOMAIN files /\ files[f] # Absent

\* the probing loop: every template whose source exists overwrites the
\* selection made so far (the loop has no break)
RECURSIVE probe(_, _, _)
probe(files, i, sel) ==
  IF i > Len(CONFIG) THEN sel
  ELSE probe(files, i + 1,
             IF path_exists(files, CONFIG[i].f) THEN CONFIG[i] ELSE sel)

select_target(files) == probe(files, 1, NoTarget)

\* compiler.replace('-Dzerol -Dultmaster', '-DONLINE_JUDGE')
RECURSIVE replace_flags(_)
replace_flags(c) ==
  IF Len(c) < 2 THEN c
  ELSE IF c[1] = "-Dzerol" /\ c[2] = "-Dultmaster"
       THEN <<"-DONLINE_JUDGE">> \o replace_flags(SubSeq(c, 3, Len(c)))
       ELSE <<c[1]>> \o replace_flags(Tail(c))

\* compiler.startswith("g++")
starts_with_gpp(c) == c # <<>> /\ c[1] \in {"g++", "g++-7"}

\* the build condition with "<=" for "<"
needs_build_or_equal(files, comp, src, dst) ==
  /\ comp # <<>>
  /\ (~path_exists(files, dst) \/ files[dst] <= files[src])

\* the condition of the build step
needs_build(files, comp, src, dst) ==
  /\ comp # <<>>
  /\ (~path_exists(files, dst) \/ files[dst] < files[src])

\* samples = [samples[args.test - 1]]
select_test(smp, t) == IF t = 0 THEN smp ELSE <<smp[t]>>

\* the concatenation loop with the newline after each input left out
RECURSIVE concat_in_nosep(_)
concat_in_nosep(smp) ==
  IF smp = <<>> THEN <<>> ELSE smp[1][1] \o concat_in_nosep(Tail(smp))

\* the concatenation loop of the combiner
RECURSIVE concat_in(_)
concat_in(smp) ==
  IF smp = <<>> THEN <<>> ELSE smp[1][1] \o <<NL>> \o concat_in(Tail(smp))

RECURSIVE concat_out(_)
concat_out(smp) ==
  IF smp = <<>> THEN <<>> ELSE smp[1][2] \o <<NL>> \o concat_out(Tail(smp))

\* the combiner with the "1" of the uncombined branch as the case count
combine_prefix_one(smp, case_num) ==
  LET sample_in == strip(concat_in(smp))
      sample_out == strip(concat_out(smp))
  IN << << IF case_num THEN <<"1", NL>> \o sample_in ELSE sample_in,
           sample_out >> >>

combine(smp, case_num) ==
  LET sample_in == strip(concat_in(smp))
      sample_out == strip(concat_out(smp))
  IN << << IF case_num THEN str(Len(smp)) \o <<NL>> \o sample_in
           ELSE sample_in,
           sample_out >> >>

number_each(smp) == [i \in 1..Len(smp) |-> << <<"1", NL>> \o smp[i][1], smp[i][2] >>]

\* the orders random.shuffle can leave the list in
shuffles(smp) ==
  { [i \in 1..Len(smp) |-> smp[f[i]]] :
      f \in { g \in [1..Len(smp) -> 1..Len(smp)] :
                \A i, j \in 1..Len(smp) : i # j => g[i] # g[j] } }


\* sample files the main program is run on
SampleTexts ==
  { <<"3", NL, "%", "%", NL, "3", NL>>,
    <<"1", NL, "%", "%", NL, "1", NL, "%", "%", "%", NL, "2", NL,
      "%", "%", NL, "2", NL, "%", "%", NL, "3", NL>> }

\* what the child may print, given the expected output
LongOutput == <<"4", "4", "4", "4", "4", "4", "4", "4", "4">>
ChildOutputs(expected) ==
  { expected, <<"4">>, LongOutput, <<"D", "E", "B", "U", "G", NL>> \o expected }

OutputLimits == {2, 8}

\* check_output hands back the output of a child that exited with status
\* zero only; the output of any other child is never looked at
Children(expected) ==
  [status : {"ok"}, out : ChildOutputs(expected), outOk : BOOLEAN,
   err : StderrKinds]
  \cup [status : ChildStatus \ {"ok"}, out : {<<>>}, outOk : {TRUE},
        err : StderrKinds]

VARIABLES
  fs,            \* the directory: file name -> modification time, or Absent
  sampleText,    \* the content of a.txt
  args,          \* the parsed command line
  pc,            \* where the program is
  target,        \* filename, compiler, executer, dest
  samples,       \* the run list
  idx,           \* the loop index (1-based)
  correct,       \* the count of passed tests
  lastRun,       \* result of the latest check() of the main loop
  hist,          \* counters of what has been done so far
  tally,         \* <<>> or <<passed, total>> as printed by the last line
  abort,         \* the exception that ended the program, or "none"
  ptext,         \* input of the pure-function checks
  pres,          \* their result
  io             \* the scratch files and the child of the run in progress

vars == <<fs, sampleText, args, pc, target, samples, idx, correct, lastRun,
          hist, tally, abort, ptext, pres, io>>

NoRun ==
  [ret |-> "none", why |-> "none", raised |-> "none", status |-> "none",
   out |-> <<>>]

Hist0 ==
  [built |-> 0, bypassed |-> FALSE, started |-> 0, fatal |-> 0,
   rebuilds |-> 0, reruns |-> 0, crashed |-> FALSE, rerunOf |-> 0,
   failedAt |-> 0, rerunSample |-> <<>>, rerunWhy |-> "none",
   interrupted |-> FALSE]

NoChild == [status |-> "none", out |-> <<>>, outOk |-> TRUE, err |-> "ascii"]

\* no run in progress: no handle open, no child
IoIdle ==
  [pos |-> "idle", open |-> {}, child |-> "none", flushed |-> FALSE,
   mode |-> "normal", run |-> 0, gpp |-> FALSE, c |-> NoChild,
   ret |-> "none", orphan |-> FALSE]

Args ==
  [online_judge : BOOLEAN, debug : BOOLEAN, case_number : BOOLEAN,
   sample_combine : {"none", "ordered", "shuffle"},
   test : 0..MaxTest, output_limit : OutputLimits]

Init ==
  /\ fs \in { f \in [Files -> Absent..MaxTime] :
                f["a.py"] <= 0 /\ f["a.txt"] <= 0 }
  /\ sampleText \in SampleTexts
  /\ args \in Args
  /\ pc = "select"
  /\ target = NoTarget
  /\ samples = <<>>
  /\ idx = 0
  /\ correct = 0
  /\ lastRun = NoRun
  /\ hist = Hist0
  /\ tally = <<>>
  /\ abort = "none"
  /\ ptext = <<>>
  /\ pres = <<>>
  /\ io = IoIdle

\* an exception that is recorded but does not stop the program
raise_and_go_on(exc) == pc' = "tally" /\ abort' = exc

\* an uncaught exception ends the program
Raise(exc) == pc' = "aborted" /\ abort' = exc

\* lines 113-126: probe the templates, apply --check, fail without a source
SelectTarget ==
  /\ pc = "select"
  /\ LET sel == select_target(fs)
         t == IF args.online_judge
              THEN [sel EXCEPT !.c = replace_flags(sel.c)] ELSE sel
     IN /\ target' = t
        /\ IF t.f = "" THEN Raise("FileNotFoundError: source")
           ELSE pc' = "build" /\ abort' = abort
  /\ UNCHANGED <<io, fs, sampleText, args, samples, idx, correct, lastRun, hist,
                 tally, ptext, pres>>

\* lines 128-132: compile when the artifact is missing or older
BuildStep ==
  /\ pc = "build"
  /\ IF needs_build(fs, target.c, target.f, target.d)
     THEN \E ok \in BOOLEAN :
            /\ hist' = [hist EXCEPT !.built = @ + 1]
            /\ IF ok THEN pc' = "samples" /\ abort' = abort
               ELSE Raise("CalledProcessError: build")
     ELSE /\ hist' = [hist EXCEPT !.bypassed = TRUE]
          /\ pc' = "samples" /\ abort' = abort
  /\ UNCHANGED <<io, fs, sampleText, args, target, samples, idx, correct,
                 lastRun, tally, ptext, pres>>

\* lines 134-141: the sample file must exist; parse it; --test picks one
LoadSamples ==
  /\ pc = "samples"
  /\ IF ~path_exists(fs, "a.txt")
     THEN Raise("FileNotFoundError: samples") /\ samples' = samples
     ELSE LET parsed == parse_samples(sampleText)
          IN IF args.test > Len(parsed)
             THEN Raise("IndexError") /\ samples' = parsed
             ELSE /\ samples' = select_test(parsed, args.test)
                  /\ pc' = "combine" /\ abort' = abort
  /\ UNCHANGED <<io, fs, sampleText, args, target, idx, correct, lastRun, hist,
                 tally, ptext, pres>>

\* lines 143-160: shuffle, combine, number
Combine ==
  /\ pc = "combine"
  /\ \E order \in (IF args.sample_combine = "shuffle"
                   THEN shuffles(samples) ELSE {samples}) :
       samples' =
         IF args.sample_combine \in {"ordered", "shuffle"}
         THEN combine(order, args.case_number)
         ELSE IF args.case_number THEN number_each(order) ELSE order
  /\ pc' = "loop"
  /\ idx' = 1
  /\ correct' = 0
  /\ UNCHANGED <<io, fs, sampleText, args, target, lastRun, hist, tally, abort,
                 ptext, pres>>

\* lines 161-166: one pass of the loop body up to the except clause
RunSample ==
  /\ pc = "loop"
  /\ idx <= Len(samples)
  /\ \E child \in Children(samples[idx][2]) :
       LET r == check(child, samples[idx][2], args.output_limit, FALSE,
                      ~args.debug)
       IN /\ lastRun' = [ret |-> r.ret, why |-> r.why, raised |-> r.raised,
                          status |-> child.status, out |-> child.out]
          /\ hist' = [hist EXCEPT
                        !.started = @ + 1,
                        !.crashed = @ \/ r.raised = "CalledProcessError",
                        !.interrupted = @ \/ r.raised = "KeyboardInterrupt",
                        !.failedAt = IF r.ret = "Raise" THEN idx ELSE @]
          /\ correct' = IF r.ret = "True" THEN correct + 1 ELSE correct
          /\ IF r.ret = "Raise" THEN pc' = "except" /\ idx' = idx
             ELSE pc' = "loop" /\ idx' = idx + 1
  /\ UNCHANGED <<io, fs, sampleText, args, target, samples, tally, abort, ptext,
                 pres>>

\* lines 166-172: "Fatal Error!"; a g++ command gets " -g" and is run again;
\* any other command leaves the except clause and the loop goes on
FatalError ==
  /\ pc = "except"
  /\ IF starts_with_gpp(target.c)
     THEN /\ target' = [target EXCEPT !.c = Append(@, "-g")]
          /\ \E ok \in BOOLEAN :
               /\ hist' = [hist EXCEPT !.fatal = @ + 1, !.rebuilds = @ + 1]
               /\ IF ok THEN pc' = "rerun" /\ abort' = abort
                  ELSE Raise("CalledProcessError: rebuild")
          /\ idx' = idx
     ELSE /\ hist' = [hist EXCEPT !.fatal = @ + 1]
          /\ target' = target
          /\ pc' = "loop" /\ abort' = abort
          /\ idx' = idx + 1
  /\ UNCHANGED <<io, fs, sampleText, args, samples, correct, lastRun, tally,
                 ptext, pres>>

\* the diagnostic run with its result counted like a run of the loop
RerunCounted ==
  /\ pc = "rerun"
  /\ \E child \in Children(samples[idx][2]) :
       LET r == check(child, samples[idx][2], args.output_limit, TRUE, TRUE)
       IN /\ hist' = [hist EXCEPT !.reruns = @ + 1, !.rerunOf = idx,
                                  !.rerunSample = samples[idx],
                                  !.rerunWhy = r.why]
          /\ correct' = IF r.ret = "True" THEN correct + 1 ELSE correct
          /\ IF r.ret = "Raise" THEN Raise(r.raised)
             ELSE pc' = "tally" /\ abort' = abort
  /\ UNCHANGED <<io, fs, sampleText, args, target, samples, idx, lastRun,
                 tally, ptext, pres>>

\* lines 173-174: the diagnostic run of the same sample, then break
Rerun ==
  /\ pc = "rerun"
  /\ \E child \in Children(samples[idx][2]) :
       LET r == check(child, samples[idx][2], args.output_limit, TRUE, TRUE)
       IN /\ hist' = [hist EXCEPT !.reruns = @ + 1, !.rerunOf = idx,
                                  !.rerunSample = samples[idx],
                                  !.rerunWhy = r.why]
          /\ IF r.ret = "Raise" THEN Raise(r.raised)
             ELSE pc' = "tally" /\ abort' = abort
  /\ UNCHANGED <<io, fs, sampleText, args, target, samples, idx, correct,
                 lastRun, tally, ptext, pres>>

\* the tally with the number of started runs as its total
TallyAttempted ==
  /\ \/ pc = "tally"
     \/ pc = "loop" /\ idx > Len(samples)
  /\ tally' = <<correct, hist.started>>
  /\ pc' = "done"
  /\ UNCHANGED <<io, fs, sampleText, args, target, samples, idx, correct,
                 lastRun, hist, abort, ptext, pres>>

\* lines 175-176: after the loop, print the tally
Tally ==
  /\ \/ pc = "tally"
     \/ pc = "loop" /\ idx > Len(samples)
  /\ tally' = <<correct, Len(samples)>>
  /\ pc' = "done"
  /\ UNCHANGED <<io, fs, sampleText, args, target, samples, idx, correct,
                 lastRun, hist, abort, ptext, pres>>

\* ------------------------------------------------ the pure functions alone
Alphabet == {"%", NL, " ", "3", ESC}

TextsUpTo(n) == UNION { [1..k -> Alphabet] : k \in 0..n }

DebugTexts ==
  { <<"D", "E", "B", "U", "G", " ", "x", NL, NL, "3", NL>>,
    <<"3", NL, "D", "E", "B", "U", "G", NL>>,
    <<"D", "E", "B", "U", NL, "3">> }

InitPure ==
  /\ fs \in { [f \in Files |-> Absent] }
  /\ sampleText = <<>>
  /\ args \in { a \in Args : ~a.online_judge /\ ~a.debug /\ ~a.case_number
                             /\ a.sample_combine = "none" /\ a.test = 0 }
  /\ pc = "pure"
  /\ target = NoTarget
  /\ samples = <<>>
  /\ idx = 0
  /\ correct = 0
  /\ lastRun = NoRun
  /\ hist = Hist0
  /\ tally = <<>>
  /\ abort = "none"
  /\ ptext \in TextsUpTo(MaxLen) \cup DebugTexts
  /\ pres = <<>>
  /\ io = IoIdle

\* parse_samples applied to the text
ParseText ==
  /\ pc = "pure"
  /\ pc' = "parsed"
  /\ pres' = parse_samples(ptext)
  /\ UNCHANGED <<io, fs, sampleText, args, target, samples, idx, correct,
                 lastRun, hist, tally, abort, ptext>>

\* lines 52-54 applied to the text as the decoded output, ignore_debug set
NormalizeText ==
  /\ pc = "pure"
  /\ pc' = "normalized"
  /\ pres' = normalize_output(ptext, TRUE)
  /\ UNCHANGED <<io, fs, sampleText, args, target, samples, idx, correct,
                 lastRun, hist, tally, abort, ptext>>

NextPure ==
  \/ ParseText
  \/ NormalizeText

SpecPure == InitPure /\ [][NextPure]_vars

Next ==
  \/ SelectTarget
  \/ BuildStep
  \/ LoadSamples
  \/ Combine
  \/ RunSample
  \/ FatalError
  \/ Rerun
  \/ Tally

Spec == Init /\ [][Next]_vars

\* ------------------------------------------- check() one statement at a time
\* The scratch files of check(): a handle is open from its open() to the end
\* of its with block; the child runs inside check_output, which returns or
\* raises only after the child was waited for (killed first on a timeout or
\* an interrupt).  shell=True makes that child a shell: the timeout kills
\* the shell, and the command the shell started may run on with the stdin
\* and the stderr it was given.
progVars == <<fs, sampleText, args, pc, target, samples, idx, correct,
              lastRun, hist, tally, abort, ptext, pres>>

IoExpected == <<"3">>

InitIO ==
  /\ fs \in { [f \in Files |-> Absent] }
  /\ sampleText = <<>>
  /\ args \in { a \in Args : ~a.online_judge /\ ~a.case_number
                             /\ a.sample_combine = "none" /\ a.test = 0 }
  /\ pc = "io"
  /\ target = NoTarget
  /\ samples = <<>>
  /\ idx = 0
  /\ correct = 0
  /\ lastRun = NoRun
  /\ hist = Hist0
  /\ tally = <<>>
  /\ abort = "none"
  /\ ptext = <<>>
  /\ pres = <<>>
  /\ io \in { [IoIdle EXCEPT !.pos = "start", !.run = 1, !.gpp = g] :
                g \in BOOLEAN }

\* line 46: open the input file for writing
IoOpenInput ==
  /\ pc = "io" /\ io.pos = "start"
  /\ io' = [io EXCEPT !.pos = "write", !.open = @ \cup {"in_w"}]
  /\ UNCHANGED progVars

\* line 47 and the end of its with block: write, flush and close
IoWriteInput ==
  /\ pc = "io" /\ io.pos = "write"
  /\ io' = [io EXCEPT !.pos = "open", !.open = @ \ {"in_w"},
                      !.flushed = TRUE]
  /\ UNCHANGED progVars

\* line 48: reopen the input for reading, open the stderr file for writing
IoOpenBoth ==
  /\ pc = "io" /\ io.pos = "open"
  /\ io' = [io EXCEPT !.pos = "spawn", !.open = @ \cup {"in_r", "err_w"}]
  /\ UNCHANGED progVars

\* line 50: check_output starts the child on the two handles
IoSpawn ==
  /\ pc = "io" /\ io.pos = "spawn"
  /\ \E c \in Children(IoExpected) :
       io' = [io EXCEPT !.pos = "wait", !.child = "running", !.c = c]
  /\ UNCHANGED progVars

\* line 50: check_output returns, or raises, once the shell was waited for;
\* after a timeout the command may be left running
IoChildEnds ==
  /\ pc = "io" /\ io.pos = "wait"
  /\ \E o \in IF io.c.status = "timeout" THEN BOOLEAN ELSE {FALSE} :
       io' = [io EXCEPT !.pos = "body", !.child = "reaped",
                           !.orphan = @ \/ o]
  /\ UNCHANGED progVars

\* line 50: a command left running ends on its own, at any time
IoOrphanEnds ==
  /\ pc = "io" /\ io.orphan
  /\ io' = [io EXCEPT !.orphan = FALSE]
  /\ UNCHANGED progVars

\* lines 51-74 and the end of the with block of line 48: both handles are
\* closed, on a return as on an exception, before any except clause runs
IoExitWith ==
  /\ pc = "io" /\ io.pos = "body"
  /\ LET r == check(io.c, IoExpected, args.output_limit, io.mode = "rerun",
                    io.mode = "rerun" \/ ~args.debug)
         reads == \/ r.why \in {"Timeout", "Decode", "OutputLimit"}
                  \/ r.why = "RuntimeError" /\ io.mode = "rerun"
     IN io' = [io EXCEPT !.pos = IF reads THEN "handler" ELSE "returned",
                         !.open = @ \ {"in_r", "err_w"},
                         !.ret = r.ret]
  /\ UNCHANGED progVars

\* lines 77 and 85: an except clause opens the stderr file for reading
IoOpenStderr ==
  /\ pc = "io" /\ io.pos = "handler"
  /\ io' = [io EXCEPT !.pos = "reading", !.open = @ \cup {"err_r"}]
  /\ UNCHANGED progVars

\* lines 78-80 and 86-88: read, leave the with block, return or raise
IoCloseStderr ==
  /\ pc = "io" /\ io.pos = "reading"
  /\ io' = [io EXCEPT !.pos = "returned", !.open = @ \ {"err_r"}]
  /\ UNCHANGED progVars

\* lines 161-174: the caller starts the next run: the diagnostic re-run
\* after an exception with a g++ command, the next sample otherwise; the
\* re-run is the last run
IoNextRun ==
  /\ pc = "io" /\ io.pos = "returned"
  /\ io.mode = "normal"
  /\ io.run < MaxRuns
  /\ io' = [io EXCEPT !.pos = "start", !.run = @ + 1, !.flushed = FALSE,
                      !.child = "none", !.c = NoChild, !.ret = "none",
                      !.mode = IF io.ret = "Raise" /\ io.gpp THEN "rerun"
                               ELSE "normal"]
  /\ UNCHANGED progVars

NextIO ==
  \/ IoOpenInput
  \/ IoWriteInput
  \/ IoOpenBoth
  \/ IoSpawn
  \/ IoChildEnds
  \/ IoOrphanEnds
  \/ IoExitWith
  \/ IoOpenStderr
  \/ IoCloseStderr
  \/ IoNextRun

SpecIO == InitIO /\ [][NextIO]_vars

\* ------------------------------------------------------------------ claims

\* C1: once a run of the main loop has raised the error of a non-zero exit,
\* no further sample is started, whatever the build target.
C1_NoSampleAfterRuntimeError ==
  [][hist.crashed => hist'.started = hist.started]_vars

\* C2: the selected target is the first template, in CONFIG order, whose
\* source file exists.
C2_FirstExistingSourceWins ==
  LET found == { i \in 1..Len(CONFIG) : path_exists(fs, CONFIG[i].f) }
  IN (pc # "select" /\ found # {}) =>
       LET first == CHOOSE i \in found : \A j \in found : i <= j
       IN /\ target.f = CONFIG[first].f
          /\ target.e = CONFIG[first].e
          /\ target.d = CONFIG[first].d
          /\ (target.c = <<>>) = (CONFIG[first].c = <<>>)

\* C3 as stated: when recovery halted the batch, the printed total is the
\* number of samples started in the main loop.
C3_TotalIsAttempted ==
  (tally # <<>> /\ hist.reruns > 0) => tally[2] = hist.started

\* C3 amended: the printed total is the length of the run list, also when
\* recovery halted the batch after fewer samples were started; the printed
\* passed count is the count of passing runs.
C3_TotalIsRunListLength ==
  tally # <<>> =>
    /\ tally[2] = Len(samples)
    /\ tally[1] = correct
    /\ hist.started <= tally[2]

C3_Witness ==
  /\ tally # <<>>
  /\ hist.reruns = 1
  /\ hist.started < Len(samples)

\* C4: a run that times out, exceeds the output limit or mismatches is not
\* counted, does not enter the recovery branch, and the loop goes on with
\* the next sample.
C4_LimitAndMismatchNonFatal ==
  [][(/\ hist'.started = hist.started + 1
      /\ lastRun'.why \in {"Timeout", "OutputLimit", "Mismatch"})
     => (correct' = correct /\ pc' = "loop" /\ idx' = idx + 1)]_vars

\* C5 as stated: with the debug flag every started sample is counted as
\* passed, whatever the child does.
C5_DebugAlwaysPasses ==
  args.debug => correct = hist.started

\* C5 amended: with the debug flag a started sample is counted as passed
\* exactly when its child exits with status zero within the time limit and
\* its output decodes; then no comparison and no output limit applies.  A
\* non-zero exit or an interrupt goes to the except clause of the loop.
C5_DebugPassIffCleanExit ==
  [][(args.debug /\ hist'.started = hist.started + 1) =>
       /\ (correct' = correct + 1) =
            (lastRun'.status = "ok" /\ lastRun'.why # "Decode")
       /\ correct' \in {correct, correct + 1}
       /\ lastRun'.status \in {"nonzero", "interrupt"} => pc' = "except"
       /\ lastRun'.why \notin {"Pass", "Mismatch", "NoExpectedOutput",
                               "OutputLimit"}]_vars

C5_Witness ==
  /\ args.debug
  /\ lastRun.why = "Debug"
  /\ lastRun.out = LongOutput
  /\ Len(LongOutput) > args.output_limit
  /\ correct = hist.started
  /\ correct >= 1

\* C6: after the first error of a non-zero exit the failing sample is run
\* again exactly once before the batch ends, for every build target; the
\* rebuild happens only for a native-compile command.
C6_RerunOnceForEveryTarget ==
  (hist.crashed /\ pc = "done") =>
    /\ hist.reruns = 1
    /\ hist.rerunOf = hist.failedAt
    /\ hist.rerunSample = samples[hist.failedAt]
    /\ (hist.rebuilds = 1) = starts_with_gpp(target.c)
    /\ hist.rebuilds <= 1

\* C7: with debug-stripping, the compared text is the output with the debug
\* lines removed first and the result trimmed afterwards.
C7_FilterThenTrim ==
  pc = "normalized" => pres = strip(debug_filter(ptext))

\* C8: the build command is invoked iff it is non-empty and the artifact is
\* absent or strictly older than the source; otherwise the compile phase is
\* reported as bypassed.
C8_BuildIffStale ==
  (pc \notin {"select", "build"} /\ target.f # "") =>
    LET stale == /\ target.c # <<>>
                 /\ (fs[target.d] = Absent \/ fs[target.d] < fs[target.f])
    IN /\ (hist.built = 1) = stale
       /\ hist.bypassed = ~stale
       /\ hist.built \in {0, 1}

C8_Witness ==
  /\ pc = "samples"
  /\ target.c # <<>>
  /\ fs[target.d] # Absent
  /\ fs[target.d] = fs[target.f]
  /\ hist.bypassed
  /\ hist.built = 0

\* C9: a text of k delimiter-separated segments parses into ceil(k/2)
\* samples for odd k, the last with an empty expected output, and k/2
\* samples for even k; sample j is the trimmed segments 2j-1 and 2j in
\* file order, and no segment is dropped.
C9_ParsePairsSegments ==
  pc = "parsed" =>
    LET segs == re_split(ptext)
        k == Len(segs)
        delims == { p \in 1..Len(ptext) :
                      /\ ptext[p] = "%"
                      /\ (p = 1 \/ ptext[p - 1] # "%")
                      /\ DelimMatch(ptext, p) > 0 }
        trimmed(t) == t = <<>> \/ (t[1] \notin Whitespace
                                   /\ t[Len(t)] \notin Whitespace)
    IN /\ k = Cardinality(delims) + 1
       /\ Len(pres) = (k + 1) \div 2
       /\ \A j \in 1..Len(pres) :
            /\ pres[j][1] = strip(segs[2 * j - 1])
            /\ pres[j][2] = IF 2 * j <= k THEN strip(segs[2 * j]) ELSE <<>>
            /\ trimmed(pres[j][1]) /\ trimmed(pres[j][2])
       /\ k % 2 = 1 => pres[Len(pres)][2] = <<>>

C9_Witness ==
  /\ pc = "parsed"
  /\ Len(re_split(ptext)) = 3
  /\ Len(pres) = 2
  /\ pres[2][2] = <<>>

\* C10: a missing source file, a missing sample file or a failing build
\* command (build step or recovery rebuild) ends the program at once: no
\* sample is run afterwards, the failed step is not run again, and no tally
\* is printed.
C10_FatalErrorsAbort ==
  /\ [](/\ abort # "none" => (pc = "aborted" /\ tally = <<>>)
        /\ abort = "FileNotFoundError: source" => hist = Hist0
        /\ abort = "FileNotFoundError: samples" =>
             (hist.started = 0 /\ samples = <<>>)
        /\ abort = "CalledProcessError: build" =>
             (hist.built = 1 /\ hist.started = 0 /\ samples = <<>>)
        /\ abort = "CalledProcessError: rebuild" =>
             (/\ hist.rebuilds = 1 /\ hist.reruns = 0
              /\ hist.started = hist.failedAt))
  /\ [][abort # "none" => UNCHANGED vars]_vars

C10_Witness ==
  /\ abort = "CalledProcessError: rebuild"
  /\ hist.started < Len(samples)
  /\ hist.built = 1

C12_OrderedCombine ==
  [][pc = "combine" =>
       LET n == Len(samples)
           joinIn[k \in 1..n] ==
             IF k = 1 THEN samples[1][1]
             ELSE joinIn[k - 1] \o <<NL>> \o samples[k][1]
           joinOut[k \in 1..n] ==
             IF k = 1 THEN samples[1][2]
             ELSE joinOut[k - 1] \o <<NL>> \o samples[k][2]
       IN /\ args.sample_combine = "ordered" =>
               /\ Len(samples') = 1
               /\ samples'[1][2] = strip(joinOut[n])
               /\ ~args.case_number => samples'[1][1] = strip(joinIn[n])
          /\ (args.sample_combine = "none" /\ ~args.case_number) =>
               samples' = samples]_vars

C12_Witness ==
  /\ pc = "loop"
  /\ idx = 1
  /\ args.sample_combine = "ordered"
  /\ ~args.case_number
  /\ args.test = 0
  /\ samples = << << <<"1", NL, "2", NL, "3">>, <<"1", NL, "2">> >> >>

\* C13 as stated: with case numbering, the combined input starts with a
\* line holding the count of samples parsed from the sample file, also when
\* a single test index is selected.
C13_PrefixIsParsedCount ==
  [][(/\ pc = "combine"
      /\ args.case_number
      /\ args.sample_combine \in {"ordered", "shuffle"}) =>
       startswith(samples'[1][1],
                  str(Len(parse_samples(sampleText))) \o <<NL>>)]_vars

\* C13 amended: with case numbering, policy "none" prepends the line "1" to
\* every input and leaves the expected outputs alone; policy "ordered" or
\* "shuffle" prepends to the combined input a line holding the number of
\* samples being combined, which is the run list after the --test
\* selection: 1 when a single test index is selected.
C13_PrefixIsRunListCount ==
  [][(pc = "combine" /\ args.case_number) =>
       LET n == Len(samples)
           joinIn[k \in 1..n] ==
             IF k = 1 THEN samples[1][1]
             ELSE joinIn[k - 1] \o <<NL>> \o samples[k][1]
           digit == Digits[n + 1]
       IN /\ n = (IF args.test = 0 THEN Len(parse_samples(sampleText))
                  ELSE 1)
          /\ args.sample_combine = "none" =>
               /\ Len(samples') = n
               /\ \A i \in 1..n :
                    /\ samples'[i][1] = <<"1", NL>> \o samples[i][1]
                    /\ samples'[i][2] = samples[i][2]
          /\ args.sample_combine = "ordered" =>
               samples'[1][1] = <<digit, NL>> \o strip(joinIn[n])
          /\ args.sample_combine \in {"ordered", "shuffle"} =>
               /\ Len(samples') = 1
               /\ startswith(samples'[1][1], <<digit, NL>>)]_vars

C13_Witness ==
  /\ pc = "loop"
  /\ idx = 1
  /\ args.case_number
  /\ args.sample_combine = "ordered"
  /\ args.test = 2
  /\ Len(parse_samples(sampleText)) = 3
  /\ samples = << << <<"1", NL, "2">>, <<"2">> >> >>

\* C14: after an interrupt arrives while a sample is executed, no rebuild
\* is started, no diagnostic re-run is made and no further sample is run.
C14_InterruptAborts ==
  [][hist.interrupted =>
       /\ hist'.rebuilds = hist.rebuilds
       /\ hist'.reruns = hist.reruns
       /\ hist'.started = hist.started]_vars

\* C15: the recovery branch is entered at most once, the debug rebuild runs
\* at most once, the build command gets at most one debug flag, and once
\* the branch was entered no further sample is processed.
C15_RecoveryOneShot ==
  /\ hist.fatal <= 1
  /\ hist.rebuilds <= 1
  /\ Cardinality({ i \in DOMAIN target.c : target.c[i] = "-g" }) <= 1
  /\ hist.fatal >= 1 => hist.started = hist.failedAt

\* C16: the passed count never exceeds the number of completed runs of the
\* loop and grows by one exactly on a run of the loop that returns a passing
\* outcome; a run that raised is not counted, and the diagnostic re-run
\* never changes the count, whatever it returns.
C16_PassedCountsPassingRuns ==
  /\ [](/\ correct + hist.fatal + (IF pc = "except" THEN 1 ELSE 0)
             <= hist.started
        /\ tally # <<>> => tally[1] = correct)
  /\ [][/\ hist'.started = hist.started + 1 =>
             /\ correct' = correct + (IF lastRun'.ret = "True" THEN 1 ELSE 0)
             /\ (lastRun'.ret = "True") =
                  (lastRun'.why \in {"Pass", "NoExpectedOutput", "Debug"})
             /\ lastRun'.raised # "none" => correct' = correct
        /\ hist'.started = hist.started => correct' = correct
        /\ hist'.reruns # hist.reruns => correct' = correct]_vars

C16_Witness ==
  /\ pc = "done"
  /\ hist.crashed
  /\ hist.reruns = 1
  /\ hist.rerunWhy = "Pass"
  /\ hist.started = 1
  /\ Len(samples) > 1
  /\ tally = <<0, Len(samples)>>

\* C17: on every run, the diagnostic re-run included, the input file is
\* written and closed before it is reopened and given to the child, the
\* stderr file is closed for writing before an except clause reads it, and
\* no run starts while a child or a file handle of an earlier run is open.
C17_ScopedFiles ==
  /\ io.child = "running" =>
       (io.flushed /\ "in_r" \in io.open /\ "in_w" \notin io.open
        /\ "err_w" \in io.open)
  /\ "in_r" \in io.open => (io.flushed /\ "in_w" \notin io.open)
  /\ "err_r" \in io.open =>
       ("err_w" \notin io.open /\ io.child # "running" /\ ~io.orphan)
  /\ io.pos = "start" =>
       (io.open = {} /\ io.child # "running" /\ ~io.orphan)
  /\ io.pos = "returned" => (io.open = {} /\ io.child = "reaped")

====
